---- MODULE Spec2Model ----
(***************************************************************************)
(* Model of quiche_mio_runner: the Runner event loop (src/src/runner.rs),  *)
(* the socket registry (src/src/sockets.rs) and the receive primitive      *)
(* (src/src/recvfrom.rs, src/src/socket.rs).                               *)
(*                                                                         *)
(* The protocol engine (quiche_endpoint::Endpoint), the poller (mio), the  *)
(* kernel and the user hooks are collaborators outside the repository:     *)
(* what they return is a nondeterministic input of the step that calls     *)
(* them.  Option<T> is a sequence of length at most one: None is <<>> and  *)
(* Some(x) is <<x>>.                                                       *)
(***************************************************************************)
EXTENDS Integers, Sequences, FiniteSets, TLC

\* ------------------------------------------------------------------ bounds
\* Durations are 0..MaxDur (abstract time units).
MaxDur == 2
\* The engine holds at most MaxConns connections.
MaxConns == 1
\* A poll reports at most MaxReady ready events.
MaxReady == 2
\* A poll is interrupted at most MaxPollRetry times in one iteration.
MaxPollRetry == 1
\* One drain of a socket receives at most MaxRecv datagrams.
MaxRecv == 2
\* A datagram in the run loop holds at most MaxLen bytes.
MaxLen == 3
\* The engine produces at most MaxSend packets in one send drain.
MaxSend == 2
\* The event slab holds at most MaxEvents descriptors when registration is
\* studied alone.
MaxEvents == 3

\* ---------------------------------------------------------------- constants
\* Size of the scratch buffer, Runner.buf.  The constant is defined in the
\* quiche_endpoint crate; a UDP payload length fits the 16-bit UDP length
\* field, which is the value taken here.
MAX_UDP_PAYLOAD == 65535
\* Number of values of a u16.
U16_RANGE == 65536

\* ------------------------------------------------------------------ inputs
None == <<>>
Some(x) == <<x>>
Dur == 0..MaxDur
OptDur == {None} \cup {Some(d) : d \in Dur}

\* Local addresses sockets are bound to; "a3" is never bound by the setups
\* of Init, the engine may still name it as the source of a packet.
Addrs == {"a1", "a2", "a3"}
\* The opaque values registered with external event sources.
ExtValues == {7}
\* GRO segment sizes the kernel reports in a control message (0: none).
GroSizes == {0, 1200, 1500}

\* --------------------------------------------------------------- registry
\* enum Event { Close, Socket(usize), External(T) }
EvClose == [tag |-> "Close", arg |-> 0]
EvSocket(socket_token) == [tag |-> "Socket", arg |-> socket_token]
EvExternal(v) == [tag |-> "External", arg |-> v]

SlabInsertOverwritesLast(slab, v) ==
  IF slab = <<>>
  THEN [slab |-> <<v>>, key |-> 0]
  ELSE [slab |-> [slab EXCEPT ![Len(slab)] = v], key |-> Len(slab) - 1]

\* Slab::insert on a slab nothing was removed from: the key is the length.
\* A slab is a sequence; key k is held at position k + 1.
SlabInsert(slab, v) == [slab |-> Append(slab, v), key |-> Len(slab)]
SlabGet(slab, key) == slab[key + 1]
SlabHas(slab, key) == key + 1 \in DOMAIN slab

\* The registration state of a Runner: the event slab (Registry.events), the
\* socket slab (MioSockets.sockets) and the reverse index
\* (MioSockets.src_addr_to_key), a function on the addresses inserted.
\* Runner::new: one Close descriptor when a close pipe is given.
New(close_pipe_rx) ==
  [events |-> IF close_pipe_rx THEN SlabInsert(<<>>, EvClose).slab ELSE <<>>,
   sockets |-> <<>>,
   src_addr_to_key |-> [a \in {} |-> 0]]

\* Socket::bind: the bound socket with its cached local address;
\* enable_gro = !disable_gro && enable_gro(&inner), the probe's outcome being
\* the kernel's answer gro_probe.
Bind(addr, disable_gro, gro_probe) ==
  [local_addr |-> addr, enable_gro |-> (~disable_gro) /\ gro_probe]

MioSocketsInsertStaleKey(r, socket) ==
  LET ins == SlabInsert(r.sockets, socket)
  IN  [reg |-> [r EXCEPT !.sockets = ins.slab,
                         !.src_addr_to_key =
                            (socket.local_addr :> ins.key + 1) @@ r.src_addr_to_key],
       key |-> ins.key]

\* MioSockets::insert
MioSocketsInsert(r, socket) ==
  LET ins == SlabInsert(r.sockets, socket)
  IN  [reg |-> [r EXCEPT !.sockets = ins.slab,
                         !.src_addr_to_key =
                            (socket.local_addr :> ins.key) @@ r.src_addr_to_key],
       key |-> ins.key]

\* Runner::register_socket
RegisterSocket(r, socket) ==
  LET ins == MioSocketsInsert(r, socket)
  IN  [ins.reg EXCEPT !.events = SlabInsert(ins.reg.events, EvSocket(ins.key)).slab]

\* Registry::register_external
RegisterExternal(r, value) ==
  [r EXCEPT !.events = SlabInsert(r.events, EvExternal(value)).slab]

\* Tokens registered with the poller: every key of the event slab.
Tokens(evs) == {t - 1 : t \in DOMAIN evs}

\* ------------------------------------------------------- receive primitive
\* `x as u16`: the low 16 bits of a machine word.
U16(x) == x % U16_RANGE

recv_from_ZeroWithoutGro(enable_gro, size, gro_size) ==
  IF enable_gro
  THEN [len |-> size, segment_size |-> gro_size % U16_RANGE]
  ELSE [len |-> size, segment_size |-> 0]

\* recvfrom::recv_from, on a receive that succeeded with `size` payload bytes
\* and, on the GRO path, the segment size `gro_size` of the control message
\* (0 when the kernel attached none): the pair (length, segment size).
\* GRO path: recv_from_gro returns (msg.bytes, addr, gro_size as u16).
\* Plain path: socket.recv_from(buf).map(|(size, addr)| (size, addr, size as u16)).
recv_from(enable_gro, size, gro_size) ==
  IF enable_gro
  THEN [len |-> size, segment_size |-> U16(gro_size)]
  ELSE [len |-> size, segment_size |-> U16(size)]

\* Socket::recv
SocketRecv(socket, size, gro_size) == recv_from(socket.enable_gro, size, gro_size)

\* handle_readable_event: let segment_size = if segment_size == 0 { len }
\* else { segment_size as usize }
SegmentSize(len, segment_size) == IF segment_size = 0 THEN len ELSE segment_size

Min(a, b) == IF a <= b THEN a ELSE b

\* buf[..len].chunks_mut(chunk_size), chunk_size > 0: the chunks from offset
\* `off` on, each <<offset, size>>, the last one possibly shorter.
RECURSIVE ChunksFrom(_, _, _)
ChunksFrom(off, len, chunk_size) ==
  IF off >= len THEN <<>>
  ELSE <<<<off, Min(chunk_size, len - off)>>>> \o ChunksFrom(off + chunk_size, len, chunk_size)

\* chunks_mut panics when chunk_size is 0 ("chunk size must be non-zero"),
\* also on an empty slice.
ChunksPanics(len, chunk_size) == chunk_size = 0

Chunks(len, chunk_size) == ChunksFrom(0, len, chunk_size)

\* ----------------------------------------------------------------- engine
\* The engine as the runner sees it: has_pending_sends(), num_conns() and
\* is_server().  timeout() is read once per iteration and is an input of
\* that step.
EndpointStates ==
  [pending : BOOLEAN, conns : 0..MaxConns, server : BOOLEAN]

\* What user code holding &mut Endpoint (a hook) may leave behind: packets
\* queued or not, connections opened or closed; the mode stays.
HookEndpoints(ep) ==
  {[ep EXCEPT !.pending = p, !.conns = c] : p \in BOOLEAN, c \in 0..MaxConns}

\* Endpoint::on_timeout: may queue packets (probes, close frames).
OnTimeoutEndpoints(ep) == {[ep EXCEPT !.pending = p] : p \in BOOLEAN}

\* Endpoint::recv: may queue packets; a server may accept a connection.
RecvEndpoints(ep) ==
  {[ep EXCEPT !.pending = p, !.conns = c] :
     p \in {ep.pending, TRUE},
     c \in {ep.conns} \cup (IF ep.server /\ ep.conns < MaxConns THEN {ep.conns + 1} ELSE {})}

\* Endpoint::send_packets_out: what remains queued is the engine's business.
SendEndpoints(ep) == {[ep EXCEPT !.pending = p] : p \in BOOLEAN}

\* Endpoint::collect_garbage: removes the connections that are closed.
GarbageEndpoints(ep) == {[ep EXCEPT !.conns = c] : c \in 0..ep.conns}

\* The results of Endpoint::recv the runner tells apart.
RecvResults ==
  {"Ok", "InvalidHeader", "UnknownConnID", "IO_WouldBlock", "IO_Other",
   "InvalidAddrToken", "InvalidConnID", "QuicheRecvFailed", "Unclassified"}

RecvOutcomeHeaderBreaks(res) ==
  CASE res \in {"Ok", "UnknownConnID", "InvalidAddrToken", "InvalidConnID",
                "QuicheRecvFailed"} -> "next"
    [] res \in {"InvalidHeader", "IO_WouldBlock"} -> "break"
    [] OTHER -> "panic"

RecvOutcomeQuicheFailPanics(res) ==
  CASE res \in {"Ok", "InvalidHeader", "UnknownConnID", "InvalidAddrToken",
                "InvalidConnID"} -> "next"
    [] res = "IO_WouldBlock" -> "break"
    [] OTHER -> "panic"

RecvOutcomeWouldBlockNext(res) ==
  CASE res \in {"Ok", "InvalidHeader", "UnknownConnID", "InvalidAddrToken",
                "InvalidConnID", "QuicheRecvFailed", "IO_WouldBlock"} -> "next"
    [] OTHER -> "panic"

RecvOutcomeIoOtherSkipped(res) ==
  CASE res \in {"Ok", "InvalidHeader", "UnknownConnID", "InvalidAddrToken",
                "InvalidConnID", "QuicheRecvFailed", "IO_Other"} -> "next"
    [] res = "IO_WouldBlock" -> "break"
    [] OTHER -> "panic"

\* handle_readable_event's match on endpoint.recv(segment, info): go on with
\* the next segment, leave the segment loop, or panic.
RecvOutcome(res) ==
  CASE res = "Ok" -> "next"
    [] res = "InvalidHeader" -> "next"
    [] res = "UnknownConnID" -> "next"
    [] res = "IO_WouldBlock" -> "break"
    [] res = "IO_Other" -> "panic"
    [] res = "InvalidAddrToken" -> "next"
    [] res = "InvalidConnID" -> "next"
    [] res = "QuicheRecvFailed" -> "next"
    [] OTHER -> "panic"

\* --------------------------------------------------------- run: the match
\* The poll timeout of one iteration, from (has_pending_sends(),
\* endpoint.timeout(), app_timeout.take()).
PollTimeoutMaxOfTwo(pending, quic, app) ==
  CASE pending -> Some(0)
    [] ~pending /\ quic # None /\ app = None -> quic
    [] ~pending /\ quic = None /\ app # None -> app
    [] ~pending /\ quic # None /\ app # None ->
         Some(IF quic[1] >= app[1] THEN quic[1] ELSE app[1])
    [] ~pending /\ quic = None /\ app = None -> None

PollTimeout(pending, quic, app) ==
  CASE pending -> Some(0)
    [] ~pending /\ quic # None /\ app = None -> quic
    [] ~pending /\ quic = None /\ app # None -> app
    [] ~pending /\ quic # None /\ app # None -> Some(Min(quic[1], app[1]))
    [] ~pending /\ quic = None /\ app = None -> None

\* What self.app_timeout.take() leaves in the field: None, whichever arm of
\* the match is taken.
AppTimeoutKeptUnlessUsed(pending, app) == IF pending THEN app ELSE None

AppTimeoutAfterTake(pending, app) == None

\* The termination check: !is_server() && num_conns() == 0.
ShouldStopIgnoringMode(ep) == ep.conns = 0

ShouldStopMissingNegation(ep) == ep.server /\ ep.conns = 0

ShouldStop(ep) == (~ep.server) /\ ep.conns = 0

\* The dispatch condition: mio_events.is_empty() && !has_pending_sends().
IdleOnEmptyOnly(evs, ep) == evs = <<>>

IdleOnNothingPending(evs, ep) == ~ep.pending

Idle(evs, ep) == evs = <<>> /\ ~ep.pending

\* The ready lists a poll may report: distinct registered tokens, in any
\* order.
ReadyLists(tokens) ==
  {r \in UNION {[1..n -> tokens] : n \in 0..MaxReady} :
     \A i, j \in DOMAIN r : i # j => r[i] # r[j]}

\* --------------------------------------------------------------- variables
VARIABLES
  pc,               \* where run() is
  events,           \* Registry.events
  sockets,          \* MioSockets.sockets
  src_addr_to_key,  \* MioSockets.src_addr_to_key
  on_external_event,\* Config.on_external_event is Some
  user_hooks,       \* Config's two hooks are user functions, not the default no-ops
  endpoint,         \* Runner.endpoint
  app_timeout,      \* Runner.app_timeout
  timeout,          \* run's local `timeout`
  mio_events,       \* Runner.mio_events, the ready tokens in enumeration order
  idx,              \* position of the for loop over mio_events
  polls,            \* interrupted polls of this iteration
  rx_count,         \* datagrams received in the current drain
  rx_last,          \* result of the last socket.recv of this iteration
  dgram,            \* Some([len, reported, segment_size]) of the datagram in buf
  ci,               \* position of the segment loop in the chunks of buf
  seglog,           \* the chunks handed to endpoint.recv for the datagram in buf
  last_res,         \* result of the last endpoint.recv
  produced,         \* packets send_packets_out returned in this iteration
  handed,           \* packets passed to MioSockets::send in this iteration
  send_errs,        \* packets whose send returned an error in this iteration
  steps,            \* the steps this iteration completed, in order
  stop,             \* why run ended: "shutdown", "closed", "fatal"
  panic,            \* the panic that aborted run
  tc_in,            \* what the timeout computation read
  takes,            \* app_timeout.take() calls of this iteration
  on_timeout_calls, \* endpoint.on_timeout() calls of this iteration
  pend_eval,        \* has_pending_sends() as the dispatch condition read it
  sock_read,        \* a socket receive was called in this iteration
  ext_called,       \* the external-event hook was called in this iteration
  ext_log,          \* the values the external-event hook got in this iteration
  idle_wait,        \* Some(what bounded the poll) once on_timeout ran in this iteration
  p_in,             \* input of the receive primitive (SpecRecv)
  p_out,            \* its result
  registered,       \* the tokens registered with the poller
  reg_log,          \* the registration calls so far: token returned, descriptor stored
  ins_log,          \* the MioSockets::insert calls so far: local address, key returned
  send_res          \* the last MioSockets::send outside run: source address, slot resolved

vars ==
  <<pc, events, sockets, src_addr_to_key, on_external_event, user_hooks, endpoint,
    app_timeout, timeout, mio_events, idx, polls, rx_count, rx_last, dgram, ci, seglog,
    last_res, produced, handed, send_errs, steps, stop, panic, tc_in, takes,
    on_timeout_calls, pend_eval, sock_read, ext_called, ext_log, idle_wait, p_in, p_out,
    registered, reg_log, ins_log, send_res>>

setupVars == <<registered, reg_log, ins_log, send_res>>
regVars == <<events, sockets, src_addr_to_key, on_external_event, user_hooks, setupVars>>
drainVars == <<rx_count, rx_last, dgram, ci, seglog, last_res>>
sendVars == <<produced, handed, send_errs>>
histVars ==
  <<tc_in, takes, on_timeout_calls, pend_eval, sock_read, ext_called, ext_log,
    idle_wait>>
pureVars == <<p_in, p_out>>

NoTcIn == [pending |-> FALSE, quic |-> None, app |-> None]

\* The registrations run() starts from: Runner::new with or without a close
\* pipe, then one socket bound to "a1" (receive offload enabled or not) and
\* one external source.
Setups ==
  {RegisterExternal(RegisterSocket(New(c), Bind("a1", FALSE, g)), v) :
     c \in BOOLEAN, g \in BOOLEAN, v \in ExtValues}

\* The state when run() is called, but for the configuration: a runner set
\* up as in Setups, an engine in any state, an application timeout armed or
\* not.
InitRun ==
  /\ pc = "timeout"
  /\ \E r \in Setups :
       /\ events = r.events
       /\ sockets = r.sockets
       /\ src_addr_to_key = r.src_addr_to_key
       /\ registered = Tokens(r.events)
  /\ reg_log = <<>>
  /\ ins_log = <<>>
  /\ send_res = None
  /\ endpoint \in EndpointStates
  /\ app_timeout \in OptDur
  /\ timeout = None
  /\ mio_events = <<>>
  /\ idx = 0
  /\ polls = 0
  /\ rx_count = 0
  /\ rx_last = "none"
  /\ dgram = None
  /\ ci = 0
  /\ seglog = <<>>
  /\ last_res = "none"
  /\ produced = 0
  /\ handed = 0
  /\ send_errs = 0
  /\ steps = <<>>
  /\ stop = "running"
  /\ panic = "none"
  /\ tc_in = NoTcIn
  /\ takes = 0
  /\ on_timeout_calls = 0
  /\ pend_eval = None
  /\ sock_read = FALSE
  /\ ext_called = FALSE
  /\ ext_log = <<>>
  /\ idle_wait = None
  /\ p_in = None
  /\ p_out = None

\* A configuration of user hooks, with or without an external-event hook.
Init ==
  /\ InitRun
  /\ user_hooks = TRUE
  /\ on_external_event \in BOOLEAN

\* Config::default(): no-op hooks, no external-event hook.
InitDefault ==
  /\ InitRun
  /\ user_hooks = FALSE
  /\ on_external_event = FALSE

\* ------------------------------------------------------------------- run
\* A panic (panic!, unwrap on None/Err, a failed assertion of the standard
\* library) aborts run.
Abort(reason) ==
  /\ pc' = "panicked"
  /\ stop' = "fatal"
  /\ panic' = reason

\* runner.rs 70-76: the timeout of this iteration's poll; app_timeout.take().
TimeoutComputation ==
  /\ pc = "timeout"
  /\ \E quic \in OptDur :
       /\ tc_in' = [pending |-> endpoint.pending, quic |-> quic, app |-> app_timeout]
       /\ timeout' = PollTimeout(endpoint.pending, quic, app_timeout)
  /\ app_timeout' = AppTimeoutAfterTake(endpoint.pending, app_timeout)
  /\ takes' = 1
  /\ pc' = "poll"
  /\ steps' = <<"timeout">>
  /\ polls' = 0
  /\ idx' = 0
  /\ on_timeout_calls' = 0
  /\ pend_eval' = None
  /\ sock_read' = FALSE
  /\ ext_called' = FALSE
  /\ ext_log' = <<>>
  /\ idle_wait' = None
  /\ produced' = 0
  /\ handed' = 0
  /\ send_errs' = 0
  /\ rx_last' = "none"
  /\ UNCHANGED <<regVars, endpoint, mio_events, rx_count, dgram, ci, seglog, last_res,
                 stop, panic, pureVars>>

\* runner.rs 79: poll succeeds with the ready events.  Without a timeout the
\* poll blocks until a source is ready.
PollOk ==
  /\ pc = "poll"
  /\ \E ready \in ReadyLists(Tokens(events)) :
       /\ timeout = None => ready # <<>>
       /\ mio_events' = ready
  /\ pc' = "pre"
  /\ steps' = Append(steps, "poll")
  /\ UNCHANGED <<regVars, endpoint, app_timeout, timeout, idx, polls, drainVars,
                 sendVars, stop, panic, histVars, pureVars>>

PollInterruptedIsFatal ==
  /\ pc = "poll"
  /\ polls < MaxPollRetry
  /\ polls' = polls + 1
  /\ Abort("poll")
  /\ UNCHANGED <<regVars, endpoint, app_timeout, timeout, mio_events, idx,
                 drainVars, sendVars, steps, histVars, pureVars>>

\* runner.rs 80-83: poll fails with Interrupted and is called again with the
\* same timeout.
PollInterrupted ==
  /\ pc = "poll"
  /\ polls < MaxPollRetry
  /\ polls' = polls + 1
  /\ UNCHANGED <<pc, regVars, endpoint, app_timeout, timeout, mio_events, idx,
                 drainVars, sendVars, steps, stop, panic, histVars, pureVars>>

\* runner.rs 84-86: any other poll failure.
PollFails ==
  /\ pc = "poll"
  /\ Abort("poll")
  /\ UNCHANGED <<regVars, endpoint, app_timeout, timeout, mio_events, idx, polls,
                 drainVars, sendVars, steps, histVars, pureVars>>

\* A hook fn(&mut Runner): it may arm the application timeout with
\* set_app_timeout and may use the engine; the default hook does neither.
HookRuns ==
  IF user_hooks
  THEN /\ \E a \in {app_timeout} \cup {Some(d) : d \in Dur} : app_timeout' = a
       /\ endpoint' \in HookEndpoints(endpoint)
  ELSE UNCHANGED <<app_timeout, endpoint>>

\* runner.rs 89: (self.config.pre_handle_recvs)(self)
PreHook ==
  /\ pc = "pre"
  /\ HookRuns
  /\ pc' = "dispatch"
  /\ steps' = Append(steps, "pre")
  /\ UNCHANGED <<regVars, timeout, mio_events, idx, polls, drainVars, sendVars,
                 stop, panic, histVars, pureVars>>

DispatchIdleSkipsPostHook ==
  /\ pc = "dispatch"
  /\ Idle(mio_events, endpoint)
  /\ pend_eval' = Some(endpoint.pending)
  /\ endpoint' \in OnTimeoutEndpoints(endpoint)
  /\ on_timeout_calls' = on_timeout_calls + 1
  /\ idle_wait' = Some([pending |-> tc_in.pending, quic |-> tc_in.quic,
                        timeout |-> timeout])
  /\ pc' = "send"
  /\ steps' = Append(steps, "dispatch")
  /\ timeout' = None
  /\ tc_in' = NoTcIn
  /\ UNCHANGED <<regVars, app_timeout, mio_events, idx, polls, drainVars, sendVars,
                 stop, panic, takes, sock_read, ext_called, ext_log, pureVars>>

\* runner.rs 91-92: no ready event and nothing to send: endpoint.on_timeout().
DispatchIdle ==
  /\ pc = "dispatch"
  /\ Idle(mio_events, endpoint)
  /\ pend_eval' = Some(endpoint.pending)
  /\ endpoint' \in OnTimeoutEndpoints(endpoint)
  /\ on_timeout_calls' = on_timeout_calls + 1
  /\ idle_wait' = Some([pending |-> tc_in.pending, quic |-> tc_in.quic,
                        timeout |-> timeout])
  /\ pc' = "post"
  /\ steps' = Append(steps, "dispatch")
  /\ timeout' = None
  /\ tc_in' = NoTcIn
  /\ UNCHANGED <<regVars, app_timeout, mio_events, idx, polls, drainVars, sendVars,
                 stop, panic, takes, sock_read, ext_called, ext_log, pureVars>>

\* runner.rs 93-94: otherwise the for loop over the ready events starts.
\* has_pending_sends() is read only when mio_events is empty.
DispatchEvents ==
  /\ pc = "dispatch"
  /\ ~Idle(mio_events, endpoint)
  /\ pend_eval' = IF mio_events = <<>> THEN Some(endpoint.pending) ELSE None
  /\ idx' = 1
  /\ pc' = "events"
  /\ timeout' = None
  /\ tc_in' = NoTcIn
  /\ UNCHANGED <<regVars, endpoint, app_timeout, mio_events, polls, drainVars,
                 sendVars, steps, stop, panic, takes, on_timeout_calls, sock_read,
                 ext_called, ext_log, idle_wait, pureVars>>

HandleCloseLeavesForOnly ==
  /\ pc = "events"
  /\ idx <= Len(mio_events)
  /\ SlabGet(events, mio_events[idx]).tag = "Close"
  /\ pc' = "post"
  /\ steps' = Append(steps, "dispatch")
  /\ UNCHANGED <<regVars, endpoint, app_timeout, timeout, mio_events, idx, polls,
                 drainVars, sendVars, stop, panic, histVars, pureVars>>

\* runner.rs 95-111 with handle_event (137-159): the event at idx.
\* Close: Err(CloseByUser), run breaks out of its loop.
HandleClose ==
  /\ pc = "events"
  /\ idx <= Len(mio_events)
  /\ SlabGet(events, mio_events[idx]).tag = "Close"
  /\ pc' = "returned"
  /\ stop' = "shutdown"
  /\ UNCHANGED <<regVars, endpoint, app_timeout, timeout, mio_events, idx, polls,
                 drainVars, sendVars, steps, panic, histVars, pureVars>>

HandleExternalTwice ==
  /\ pc = "events"
  /\ idx <= Len(mio_events)
  /\ SlabGet(events, mio_events[idx]).tag = "External"
  /\ IF on_external_event
     THEN /\ endpoint' \in HookEndpoints(endpoint)
          /\ ext_called' = TRUE
          /\ ext_log' = ext_log \o << SlabGet(events, mio_events[idx]).arg,
                                      SlabGet(events, mio_events[idx]).arg >>
     ELSE UNCHANGED <<endpoint, ext_called, ext_log>>
  /\ idx' = idx + 1
  /\ UNCHANGED <<pc, regVars, app_timeout, timeout, mio_events, polls, drainVars,
                 sendVars, steps, stop, panic, tc_in, takes, on_timeout_calls,
                 pend_eval, sock_read, idle_wait, pureVars>>

\* External: the hook, when configured, gets the engine and the value.
HandleExternal ==
  /\ pc = "events"
  /\ idx <= Len(mio_events)
  /\ SlabGet(events, mio_events[idx]).tag = "External"
  /\ IF on_external_event
     THEN /\ endpoint' \in HookEndpoints(endpoint)
          /\ ext_called' = TRUE
          /\ ext_log' = Append(ext_log, SlabGet(events, mio_events[idx]).arg)
     ELSE UNCHANGED <<endpoint, ext_called, ext_log>>
  /\ idx' = idx + 1
  /\ UNCHANGED <<pc, regVars, app_timeout, timeout, mio_events, polls, drainVars,
                 sendVars, steps, stop, panic, tc_in, takes, on_timeout_calls,
                 pend_eval, sock_read, idle_wait, pureVars>>

\* What a whole drain of a socket may leave in the engine: the effect of any
\* number of endpoint.recv calls.
DrainEndpoints(ep) ==
  {[ep EXCEPT !.pending = p, !.conns = c] :
     p \in {ep.pending, TRUE},
     c \in IF ep.server THEN ep.conns..MaxConns ELSE {ep.conns}}

\* The ways handle_readable_event ends: Ok(()) after a receive that would
\* block, Err(IO) after another receive error (run panics on it), or a panic
\* inside: on an engine I/O error, on an unclassified engine error, in
\* chunks_mut.
DrainResults == {"Ok", "recv_io", "engine_io", "unexpected", "chunk_size_zero"}

\* Socket, as one step: handle_readable_event from entry to exit (161-242)
\* and run's match on its result (104-110).
HandleSocketEvent ==
  /\ pc = "events"
  /\ idx <= Len(mio_events)
  /\ SlabGet(events, mio_events[idx]).tag = "Socket"
  /\ SlabHas(sockets, SlabGet(events, mio_events[idx]).arg)
  /\ sock_read' = TRUE
  /\ \E res \in DrainResults :
       IF res = "Ok"
       THEN /\ endpoint' \in DrainEndpoints(endpoint)
            /\ idx' = idx + 1
            /\ UNCHANGED <<pc, stop, panic>>
       ELSE /\ Abort(res)
            /\ UNCHANGED <<endpoint, idx>>
  /\ UNCHANGED <<regVars, app_timeout, timeout, mio_events, polls, drainVars,
                 sendVars, steps, tc_in, takes, on_timeout_calls, pend_eval,
                 ext_called, ext_log, idle_wait, pureVars>>

\* Socket, step by step: handle_readable_event is entered (161-175).
HandleSocket ==
  /\ pc = "events"
  /\ idx <= Len(mio_events)
  /\ SlabGet(events, mio_events[idx]).tag = "Socket"
  /\ SlabHas(sockets, SlabGet(events, mio_events[idx]).arg)
  /\ pc' = "read"
  /\ rx_count' = 0
  /\ rx_last' = "none"
  /\ dgram' = None
  /\ ci' = 0
  /\ seglog' = <<>>
  /\ last_res' = "none"
  /\ UNCHANGED <<regVars, endpoint, app_timeout, timeout, mio_events, idx, polls,
                 sendVars, steps, stop, panic, histVars, pureVars>>

\* runner.rs 94, 112: the for loop is exhausted.
ForEnd ==
  /\ pc = "events"
  /\ idx > Len(mio_events)
  /\ pc' = "post"
  /\ steps' = Append(steps, "dispatch")
  /\ UNCHANGED <<regVars, endpoint, app_timeout, timeout, mio_events, idx, polls,
                 drainVars, sendVars, stop, panic, histVars, pureVars>>

\* The socket of the Socket event at idx: &mut sockets[*socket_token].
CurSocket == SlabGet(sockets, SlabGet(events, mio_events[idx]).arg)

\* The chunks of the datagram in buf.
CurChunks == Chunks(dgram[1].len, dgram[1].segment_size)

\* runner.rs 176-185: socket.recv would block: the drain ends, Ok(()) is
\* returned and the for loop goes on.
RecvWouldBlock ==
  /\ pc = "read"
  /\ sock_read' = TRUE
  /\ idx' = idx + 1
  /\ pc' = "events"
  /\ rx_last' = "WouldBlock"
  /\ rx_count' = 0
  /\ dgram' = None
  /\ ci' = 0
  /\ seglog' = <<>>
  /\ last_res' = "none"
  /\ UNCHANGED <<regVars, endpoint, app_timeout, timeout, mio_events, polls,
                 sendVars, steps, stop, panic, tc_in, takes,
                 on_timeout_calls, pend_eval, ext_called, ext_log, idle_wait, pureVars>>

\* runner.rs 187 and 108: any other receive error is returned as
\* Err(Error::IO(e)), on which run panics.
RecvFails ==
  /\ pc = "read"
  /\ sock_read' = TRUE
  /\ rx_last' = "Error"
  /\ Abort("recv_io")
  /\ UNCHANGED <<regVars, endpoint, app_timeout, timeout, mio_events, idx, polls,
                 rx_count, dgram, ci, seglog, last_res, sendVars, steps, tc_in, takes,
                 on_timeout_calls, pend_eval, ext_called, ext_log, idle_wait, pureVars>>

\* runner.rs 176-206: socket.recv returns a datagram of `size` bytes; the
\* effective segment size is computed and the segment loop starts.
\* chunks_mut panics on a chunk size of 0.
RecvOk ==
  /\ pc = "read"
  /\ rx_count < MaxRecv
  /\ sock_read' = TRUE
  /\ rx_last' = "Ok"
  /\ \E size \in 0..MaxLen,
        gro_size \in (IF CurSocket.enable_gro THEN 0..MaxLen ELSE {0}) :
       LET r == SocketRecv(CurSocket, size, gro_size)
           segment_size == SegmentSize(r.len, r.segment_size)
       IN  /\ dgram' = Some([len |-> r.len, reported |-> r.segment_size,
                              segment_size |-> segment_size])
           /\ IF ChunksPanics(r.len, segment_size)
              THEN /\ Abort("chunk_size_zero")
                   /\ UNCHANGED rx_count
              ELSE /\ rx_count' = rx_count + 1
                   /\ pc' = IF Chunks(r.len, segment_size) = <<>> THEN "read" ELSE "seg"
                   /\ UNCHANGED <<stop, panic>>
  /\ ci' = 1
  /\ seglog' = <<>>
  /\ last_res' = "none"
  /\ UNCHANGED <<regVars, endpoint, app_timeout, timeout, mio_events, idx, polls,
                 sendVars, steps, tc_in, takes, on_timeout_calls, pend_eval,
                 ext_called, ext_log, idle_wait, pureVars>>

\* runner.rs 206-239: the segment at ci is handed to endpoint.recv and the
\* result is matched.
EngineRecv ==
  /\ pc = "seg"
  /\ seglog' = Append(seglog, CurChunks[ci])
  /\ \E res \in RecvResults :
       /\ last_res' = res
       /\ CASE RecvOutcome(res) = "next" ->
                 /\ endpoint' \in RecvEndpoints(endpoint)
                 /\ ci' = ci + 1
                 /\ pc' = IF ci = Len(CurChunks) THEN "read" ELSE "seg"
                 /\ UNCHANGED <<stop, panic>>
            [] RecvOutcome(res) = "break" ->
                 /\ pc' = "read"
                 /\ UNCHANGED <<endpoint, ci, stop, panic>>
            [] OTHER ->
                 /\ Abort(IF res = "IO_Other" THEN "engine_io" ELSE "unexpected")
                 /\ UNCHANGED <<endpoint, ci>>
  /\ UNCHANGED <<regVars, app_timeout, timeout, mio_events, idx, polls, rx_count,
                 rx_last, dgram, sendVars, steps, histVars, pureVars>>

\* runner.rs 114: (self.config.post_handle_recvs)(self)
PostHook ==
  /\ pc = "post"
  /\ HookRuns
  /\ pc' = "send"
  /\ steps' = Append(steps, "post")
  /\ UNCHANGED <<regVars, timeout, mio_events, idx, polls, drainVars, sendVars,
                 stop, panic, histVars, pureVars>>

\* MioSockets::send (sockets.rs 15-23) resolves the slot of the socket by
\* the declared source address: src_addr_to_key.get(&send_info.from), None
\* when the address is in no entry of the reverse index.
SendKeyDefaultsToFirst(index, from) ==
  IF from \in DOMAIN index THEN Some(index[from]) ELSE Some(0)

SendKey(index, from) ==
  IF from \in DOMAIN index THEN Some(index[from]) ELSE None

\* The unwrap of that lookup panics on None.
SendPanics(from) == SendKey(src_addr_to_key, from) = None

\* runner.rs 123-126: the match on the result of MioSockets::send: Ok and
\* Err (which is logged) both go on with the send loop.
SendOutcomeErrIsFatal(send_ok) == IF send_ok THEN "next" ELSE "panic"

SendOutcome(send_ok) == "next"

\* runner.rs 118-126: send_packets_out returns a packet, which is passed to
\* MioSockets::send; the socket's send succeeds or fails.
SendPacket ==
  /\ pc = "send"
  /\ produced < MaxSend
  /\ produced' = produced + 1
  /\ endpoint' \in SendEndpoints(endpoint)
  /\ \E from \in Addrs, send_ok \in BOOLEAN :
       IF SendPanics(from)
       THEN /\ Abort("no_socket_for_address")
            /\ UNCHANGED <<handed, send_errs>>
       ELSE /\ handed' = handed + 1
            /\ send_errs' = IF send_ok THEN send_errs ELSE send_errs + 1
            /\ IF SendOutcome(send_ok) = "next"
               THEN UNCHANGED <<pc, stop, panic>>
               ELSE Abort("send_io")
  /\ UNCHANGED <<regVars, app_timeout, timeout, mio_events, idx, polls, drainVars,
                 steps, histVars, pureVars>>

\* runner.rs 120: Err(Quiche(Done)): nothing more to send.
SendDone ==
  /\ pc = "send"
  /\ endpoint' \in SendEndpoints(endpoint)
  /\ pc' = "gc"
  /\ steps' = Append(steps, "send")
  /\ UNCHANGED <<regVars, app_timeout, timeout, mio_events, idx, polls, drainVars,
                 sendVars, stop, panic, histVars, pureVars>>

\* runner.rs 121: any other error of send_packets_out.
SendFails ==
  /\ pc = "send"
  /\ Abort("send_unexpected")
  /\ UNCHANGED <<regVars, endpoint, app_timeout, timeout, mio_events, idx, polls,
                 drainVars, sendVars, steps, histVars, pureVars>>

\* runner.rs 129: endpoint.collect_garbage()
CollectGarbage ==
  /\ pc = "gc"
  /\ endpoint' \in GarbageEndpoints(endpoint)
  /\ pc' = "check"
  /\ steps' = Append(steps, "gc")
  /\ UNCHANGED <<regVars, app_timeout, timeout, mio_events, idx, polls, drainVars,
                 sendVars, stop, panic, histVars, pureVars>>

\* runner.rs 131-133: the termination check; otherwise the next iteration.
TerminationCheck ==
  /\ pc = "check"
  /\ steps' = Append(steps, "check")
  /\ IF ShouldStop(endpoint)
     THEN /\ pc' = "returned"
          /\ stop' = "closed"
     ELSE /\ pc' = "timeout"
          /\ UNCHANGED stop
  /\ UNCHANGED <<regVars, endpoint, app_timeout, timeout, mio_events, idx, polls,
                 drainVars, sendVars, panic, histVars, pureVars>>

\* run() with each socket drain as one step.
Next ==
  \/ TimeoutComputation
  \/ PollOk
  \/ PollInterrupted
  \/ PollFails
  \/ PreHook
  \/ DispatchIdle
  \/ DispatchEvents
  \/ HandleClose
  \/ HandleExternal
  \/ HandleSocketEvent
  \/ ForEnd
  \/ PostHook
  \/ SendPacket
  \/ SendDone
  \/ SendFails
  \/ CollectGarbage
  \/ TerminationCheck

Spec == Init /\ [][Next]_vars

\* run() with the socket drain step by step: every receive and every segment.
NextDrain ==
  \/ TimeoutComputation
  \/ PollOk
  \/ PollInterrupted
  \/ PollFails
  \/ PreHook
  \/ DispatchIdle
  \/ DispatchEvents
  \/ HandleClose
  \/ HandleExternal
  \/ HandleSocket
  \/ ForEnd
  \/ RecvWouldBlock
  \/ RecvFails
  \/ RecvOk
  \/ EngineRecv
  \/ PostHook
  \/ SendPacket
  \/ SendDone
  \/ SendFails
  \/ CollectGarbage
  \/ TerminationCheck

SpecDrain == InitDefault /\ [][NextDrain]_vars

\* ------------------------------------------- the receive primitive alone
\* A receive on a socket with receive offload enabled or not: the kernel
\* returns `size` bytes, at most the scratch buffer, and on the GRO path a
\* segment size.
InitRecv ==
  /\ pc = "recv"
  /\ events = <<>>
  /\ sockets = <<>>
  /\ src_addr_to_key = [a \in {} |-> 0]
  /\ registered = {}
  /\ reg_log = <<>>
  /\ ins_log = <<>>
  /\ send_res = None
  /\ on_external_event = FALSE
  /\ user_hooks = FALSE
  /\ endpoint = [pending |-> FALSE, conns |-> 0, server |-> FALSE]
  /\ app_timeout = None
  /\ timeout = None
  /\ mio_events = <<>>
  /\ idx = 0
  /\ polls = 0
  /\ rx_count = 0
  /\ rx_last = "none"
  /\ dgram = None
  /\ ci = 0
  /\ seglog = <<>>
  /\ last_res = "none"
  /\ produced = 0
  /\ handed = 0
  /\ send_errs = 0
  /\ steps = <<>>
  /\ stop = "running"
  /\ panic = "none"
  /\ tc_in = NoTcIn
  /\ takes = 0
  /\ on_timeout_calls = 0
  /\ pend_eval = None
  /\ sock_read = FALSE
  /\ ext_called = FALSE
  /\ ext_log = <<>>
  /\ idle_wait = None
  /\ \E g \in BOOLEAN, n \in 0..MAX_UDP_PAYLOAD :
       \E z \in (IF g THEN GroSizes ELSE {0}) :
         p_in = Some([enable_gro |-> g, size |-> n, gro_size |-> z])
  /\ p_out = None

\* Socket::recv on the socket of p_in.
ApplyRecv ==
  /\ pc = "recv"
  /\ p_out' = Some(SocketRecv([local_addr |-> "a1", enable_gro |-> p_in[1].enable_gro],
                              p_in[1].size, p_in[1].gro_size))
  /\ pc' = "received"
  /\ UNCHANGED <<regVars, endpoint, app_timeout, timeout, mio_events, idx, polls,
                 drainVars, sendVars, steps, stop, panic, histVars, p_in>>

NextRecv == ApplyRecv

SpecRecv == InitRecv /\ [][NextRecv]_vars

\* ------------------------------------------------- registration alone
\* What run() reads and writes and a registration call does not touch.
loopVars ==
  <<on_external_event, user_hooks, endpoint, app_timeout, timeout, mio_events, idx,
    polls, drainVars, sendVars, steps, histVars, pureVars>>

\* The state after Runner::new, with or without a close pipe; its
\* registration of the pipe succeeded (a failure panics inside new and no
\* Runner exists).
InitReg ==
  /\ pc = "setup"
  /\ \E c \in BOOLEAN :
       /\ events = New(c).events
       /\ sockets = New(c).sockets
       /\ src_addr_to_key = New(c).src_addr_to_key
       /\ registered = Tokens(New(c).events)
       /\ reg_log = IF c THEN <<[token |-> 0, ev |-> EvClose]>> ELSE <<>>
  /\ ins_log = <<>>
  /\ send_res = None
  /\ on_external_event = FALSE
  /\ user_hooks = FALSE
  /\ endpoint = [pending |-> FALSE, conns |-> 0, server |-> FALSE]
  /\ app_timeout = None
  /\ timeout = None
  /\ mio_events = <<>>
  /\ idx = 0
  /\ polls = 0
  /\ rx_count = 0
  /\ rx_last = "none"
  /\ dgram = None
  /\ ci = 0
  /\ seglog = <<>>
  /\ last_res = "none"
  /\ produced = 0
  /\ handed = 0
  /\ send_errs = 0
  /\ steps = <<>>
  /\ stop = "running"
  /\ panic = "none"
  /\ tc_in = NoTcIn
  /\ takes = 0
  /\ on_timeout_calls = 0
  /\ pend_eval = None
  /\ sock_read = FALSE
  /\ ext_called = FALSE
  /\ ext_log = <<>>
  /\ idle_wait = None
  /\ p_in = None
  /\ p_out = None

\* The registration state as the record the registry operators work on.
CurReg == [events |-> events, sockets |-> sockets, src_addr_to_key |-> src_addr_to_key]

\* Runner::register_socket (52-62) with a socket of any local address:
\* MioSockets::insert takes whatever Socket it is given, and Socket is a
\* public struct of public fields.  The poller accepts the socket or the
\* unwrap of its answer panics, after both slabs were written.
RegisterSocketCall ==
  /\ pc = "setup"
  /\ Len(events) < MaxEvents
  /\ \E addr \in Addrs, disable_gro \in BOOLEAN, gro_probe \in BOOLEAN, poll_ok \in BOOLEAN :
       LET socket == Bind(addr, disable_gro, gro_probe)
           socket_token == MioSocketsInsert(CurReg, socket).key
           r == RegisterSocket(CurReg, socket)
           event_token == SlabInsert(events, EvSocket(socket_token)).key
       IN  /\ events' = r.events
           /\ sockets' = r.sockets
           /\ src_addr_to_key' = r.src_addr_to_key
           /\ ins_log' = Append(ins_log, [addr |-> addr, key |-> socket_token])
           /\ reg_log' = Append(reg_log, [token |-> event_token,
                                          ev |-> EvSocket(socket_token)])
           /\ IF poll_ok
              THEN /\ registered' = registered \cup {event_token}
                   /\ UNCHANGED <<pc, stop, panic>>
              ELSE /\ Abort("register")
                   /\ UNCHANGED registered
  /\ UNCHANGED <<send_res, loopVars>>

\* Registry::register_external (261-275)
RegisterExternalCall ==
  /\ pc = "setup"
  /\ Len(events) < MaxEvents
  /\ \E value \in ExtValues, poll_ok \in BOOLEAN :
       LET event_token == SlabInsert(events, EvExternal(value)).key
       IN  /\ events' = RegisterExternal(CurReg, value).events
           /\ reg_log' = Append(reg_log, [token |-> event_token, ev |-> EvExternal(value)])
           /\ IF poll_ok
              THEN /\ registered' = registered \cup {event_token}
                   /\ UNCHANGED <<pc, stop, panic>>
              ELSE /\ Abort("register")
                   /\ UNCHANGED registered
  /\ UNCHANGED <<sockets, src_addr_to_key, ins_log, send_res, loopVars>>

\* MioSockets::send (sockets.rs 15-23) with any declared source address.
RegistrySend ==
  /\ pc = "setup"
  /\ \E from \in Addrs :
       /\ send_res' = Some([from |-> from, key |-> SendKey(src_addr_to_key, from)])
       /\ IF SendPanics(from)
          THEN Abort("no_socket_for_address")
          ELSE UNCHANGED <<pc, stop, panic>>
  /\ UNCHANGED <<events, sockets, src_addr_to_key, registered, reg_log, ins_log, loopVars>>

NextReg ==
  \/ RegisterSocketCall
  \/ RegisterExternalCall
  \/ RegistrySend

SpecReg == InitReg /\ [][NextReg]_vars

\* ================================================================ claims
Order == <<"timeout", "poll", "pre", "dispatch", "post", "send", "gc", "check">>

IsPrefix(a, b) == Len(a) <= Len(b) /\ a = SubSeq(b, 1, Len(a))

\* The timeout of the current iteration is computed and its poll is not over.
TimeoutComputed == pc \in {"poll", "pre", "dispatch"}

\* The ready events hold a Close descriptor; the position of the first one.
HasClose == \E i \in DOMAIN mio_events : SlabGet(events, mio_events[i]).tag = "Close"
FirstClose ==
  CHOOSE i \in DOMAIN mio_events :
    /\ SlabGet(events, mio_events[i]).tag = "Close"
    /\ \A j \in 1..(i - 1) : SlabGet(events, mio_events[j]).tag # "Close"

\* C1: the poll timeout of an iteration is determined by (pending sends,
\* engine timeout, application timeout) as read at the start of the
\* iteration: zero with pending sends; otherwise the one timeout present, the
\* smaller of the two when both are, none when neither is.
C1_PollTimeoutRule ==
  TimeoutComputed =>
    LET p == tc_in.pending
        q == tc_in.quic
        a == tc_in.app
    IN  /\ timeout \in OptDur
        /\ p => timeout = Some(0)
        /\ (~p /\ q # None /\ a = None) => timeout = q
        /\ (~p /\ q = None /\ a # None) => timeout = a
        /\ (~p /\ q # None /\ a # None) =>
             /\ timeout \in {q, a}
             /\ timeout[1] <= q[1]
             /\ timeout[1] <= a[1]
        /\ (~p /\ q = None /\ a = None) => timeout = None

\* Both timeouts are present, the application's is the smaller one and it is
\* the one the poll gets.
C1_Witness ==
  /\ pc = "poll"
  /\ ~tc_in.pending
  /\ tc_in.quic = Some(2)
  /\ tc_in.app = Some(1)
  /\ timeout = Some(1)

\* C2: the timeout computation is the one place of an iteration that takes
\* the application timeout, and it leaves it absent whether or not the value
\* was used; only a hook (set_app_timeout) arms it again, so a value armed
\* once is read by one timeout computation only.
C2_AppTimeoutClearedOncePerIteration ==
  [][/\ pc = "timeout" =>
          /\ app_timeout' = None
          /\ takes' = 1
          /\ tc_in'.app = app_timeout
     /\ pc # "timeout" =>
          /\ takes' = takes
          /\ app_timeout' # app_timeout =>
               /\ pc \in {"pre", "post"}
               /\ app_timeout' # None]_vars

\* Pending sends forced a zero timeout while an application timeout was
\* armed: the value was not used and is cleared all the same.
C2_Witness ==
  /\ pc = "poll"
  /\ tc_in.pending
  /\ tc_in.app = Some(1)
  /\ timeout = Some(0)
  /\ app_timeout = None
  /\ takes = 1

\* C3: with a Close descriptor among the ready events the for loop never gets
\* past it, the steps after dispatch (post hook, send drain, garbage
\* collection, termination check) are not reached in that iteration, and the
\* stop is a return, not a panic.
C3_ShutdownStopsAtClose ==
  /\ (HasClose /\ pc \in {"events", "read", "seg", "returned", "panicked"}) =>
       idx <= FirstClose
  /\ pc \in {"post", "send", "gc", "check"} => ~HasClose
  /\ stop = "shutdown" =>
       /\ pc = "returned"
       /\ panic = "none"
       /\ HasClose
       /\ idx = FirstClose
       /\ steps = <<"timeout", "poll", "pre">>
       /\ produced = 0
       /\ handed = 0

\* Close is enumerated first and a second ready event after it is never
\* dispatched.
C3_Witness ==
  /\ stop = "shutdown"
  /\ Len(mio_events) = 2
  /\ idx = 1

\* C4: in client mode the loop ends at the first termination check that finds
\* no connection: a loop that went on past a check has a server engine or a
\* connection left; the check follows garbage collection.
C4_ClientStopsAtZeroConns ==
  /\ (pc = "timeout" /\ steps # <<>>) =>
       (endpoint.server \/ endpoint.conns > 0)
  /\ stop = "closed" =>
       /\ pc = "returned"
       /\ panic = "none"
       /\ ~endpoint.server
       /\ endpoint.conns = 0
       /\ steps = Order
  /\ pc = "check" => (steps # <<>> /\ steps[Len(steps)] = "gc")
  /\ pc = "gc" => (steps # <<>> /\ steps[Len(steps)] = "send")

\* A client whose last connection is gone returns from the check of an
\* iteration whose poll timed out.
C4_Witness ==
  /\ stop = "closed"
  /\ on_timeout_calls = 1
  /\ ~endpoint.server

\* C5: with a server engine run does not end at the termination check: it is
\* running, or stopped by a Close event or a panic.
C5_ServerNeverStopsAtCheck ==
  endpoint.server =>
    /\ stop \in {"running", "shutdown", "fatal"}
    /\ pc = "returned" => stop = "shutdown"
    /\ pc = "panicked" => stop = "fatal"

\* A server without connections passed the termination check and loops on.
C5_Witness ==
  /\ endpoint.server
  /\ endpoint.conns = 0
  /\ pc = "timeout"
  /\ steps = Order

\* C6: the steps of an iteration run once each in the order of Order; no
\* packet is requested from the engine before the post hook is over, and
\* every packet the engine produced is passed to the socket registry before
\* garbage collection.
C6_StepOrder ==
  /\ IsPrefix(steps, Order)
  /\ pc = "timeout" => steps \in {<<>>, Order}
  /\ pc = "poll" => Len(steps) = 1
  /\ pc = "pre" => Len(steps) = 2
  /\ pc \in {"dispatch", "events", "read", "seg"} => Len(steps) = 3
  /\ pc = "post" => Len(steps) = 4
  /\ pc = "send" => Len(steps) = 5
  /\ pc = "gc" => Len(steps) = 6
  /\ pc = "check" => Len(steps) = 7
  /\ stop = "closed" => steps = Order
  /\ Len(steps) < 5 => produced = 0
  /\ (Len(steps) >= 6 /\ pc # "panicked") => handed = produced

\* A whole iteration that took the idle branch and sent two packets.
C6_Witness ==
  /\ pc = "timeout"
  /\ steps = Order
  /\ on_timeout_calls = 1
  /\ produced = 2
  /\ handed = 2

\* The dispatch condition of the current iteration has been evaluated.
Decided == idx >= 1 \/ Len(steps) >= 4

\* The iff of C7: on_timeout is called at most once in an iteration, and it
\* is called exactly when the poll reported nothing and the engine had nothing
\* to send after the pre hook; then no socket is read and no external hook
\* runs.  Before the condition is evaluated none of these has happened.
OnTimeoutIffIdle ==
  /\ on_timeout_calls \in {0, 1}
  /\ ~Decided => (on_timeout_calls = 0 /\ ~sock_read /\ ~ext_called)
  /\ Decided =>
       (on_timeout_calls = 1 <=> (mio_events = <<>> /\ pend_eval = Some(FALSE)))
  /\ on_timeout_calls = 1 => (idx = 0 /\ ~sock_read /\ ~ext_called)
  /\ (sock_read \/ ext_called) => idx >= 1

\* The ready events handed to handle_event so far in the current iteration.
\* In the for loop between two events, or after it, idx is one past the last
\* event dispatched; during an event and when run stopped at it, idx is it.
Dispatched ==
  IF pc = "events" \/ Len(steps) >= 4 THEN idx - 1 ELSE idx

\* C7 (as amended): on_timeout is called once iff the poll reported nothing
\* and nothing was pending; in every other iteration it is not called and the
\* ready events are dispatched in order, all of them unless a Close event or
\* a fatal error ends run, which then happens at the event being dispatched.
C7_OnTimeoutOrDispatch ==
  /\ OnTimeoutIffIdle
  /\ (idx >= 1 /\ Len(steps) >= 4) => Dispatched = Len(mio_events)
  /\ (idx >= 1 /\ stop = "shutdown") =>
       (Dispatched = FirstClose /\ Dispatched <= Len(mio_events))
  /\ (idx >= 1 /\ pc \in {"events", "read", "seg"}) => Dispatched <= Len(mio_events)

\* The poll timed out with nothing to send: on_timeout ran, once.
C7_Witness ==
  /\ pc = "post"
  /\ on_timeout_calls = 1
  /\ mio_events = <<>>
  /\ pend_eval = Some(FALSE)

\* C7 as stated: in an iteration without on_timeout every ready event is
\* dispatched (fatal errors apart).
C7_EveryReadyEventDispatched ==
  /\ OnTimeoutIffIdle
  /\ (idx >= 1 /\ pc \notin {"events", "read", "seg"} /\ stop # "fatal") =>
       Dispatched = Len(mio_events)

\* The chunks in `log` are consecutive chunks of size `segment_size` from
\* offset 0 on, none empty.
InOrder(log, len, segment_size) ==
  \A i \in DOMAIN log :
    /\ log[i][1] = (i - 1) * segment_size
    /\ log[i][2] >= 1
    /\ log[i][2] <= segment_size
    /\ log[i][1] + log[i][2] <= len
    /\ i < Len(log) => log[i][2] = segment_size

\* ... and they cover bytes [0, len) exactly.
CoversPayload(log, len, segment_size) ==
  /\ InOrder(log, len, segment_size)
  /\ IF len = 0 THEN log = <<>>
     ELSE log # <<>> /\ log[Len(log)][1] + log[Len(log)][2] = len

\* C8 (as amended): the drain calls receive again after every datagram and
\* ends, without error, exactly on a receive that would block.  Before the
\* next receive every segment of the datagram received last has been handed
\* to the engine, in order, except the segments after one for which the
\* engine's receive would block.
C8_DrainUntilWouldBlock ==
  /\ pc = "read" => rx_last \in {"none", "Ok"}
  /\ pc = "seg" =>
       /\ rx_last = "Ok"
       /\ dgram # None
       /\ Len(seglog) = ci - 1
       /\ ci <= Len(CurChunks)
       /\ InOrder(seglog, dgram[1].len, dgram[1].segment_size)
  /\ (pc = "read" /\ dgram # None) =>
       IF last_res = "IO_WouldBlock"
       THEN /\ InOrder(seglog, dgram[1].len, dgram[1].segment_size)
            /\ seglog # <<>>
       ELSE CoversPayload(seglog, dgram[1].len, dgram[1].segment_size)
  /\ (pc = "events" /\ idx > 1 /\ SlabGet(events, mio_events[idx - 1]).tag = "Socket") =>
       rx_last = "WouldBlock"
  /\ rx_last = "Error" <=> panic = "recv_io"
  /\ rx_last = "WouldBlock" => (sock_read /\ panic # "recv_io")

\* The second datagram of a drain, 3 bytes in segments of 2, has been handed
\* over as two segments and the next receive is due.
C8_Witness ==
  /\ pc = "read"
  /\ rx_count = 2
  /\ dgram = Some([len |-> 3, reported |-> 2, segment_size |-> 2])
  /\ seglog = <<<<0, 2>>, <<2, 1>>>>
  /\ last_res = "Ok"

\* C8 as stated: every segment of a datagram received is handed to the
\* engine before the next receive.
C8_EverySegmentHanded ==
  (pc = "read" /\ dgram # None) =>
    CoversPayload(seglog, dgram[1].len, dgram[1].segment_size)

\* C9: after every successful receive the effective segment size is len when
\* the reported one is 0 and the reported one otherwise, the engine's receive
\* is called once per chunk of that size, the chunks covering [0, len) (one
\* call with the whole payload when 0 was reported), and the drain goes on
\* with the next receive.  (Datagrams whose segment loop the engine ended
\* with would-block are left out.)
C9_SegmentsPerReceive ==
  /\ panic # "chunk_size_zero"
  /\ (dgram # None /\ pc \in {"read", "seg"}) =>
       dgram[1].segment_size =
         (IF dgram[1].reported = 0 THEN dgram[1].len ELSE dgram[1].reported)
  /\ (pc = "read" /\ dgram # None /\ last_res # "IO_WouldBlock") =>
       /\ CoversPayload(seglog, dgram[1].len, dgram[1].segment_size)
       /\ dgram[1].reported = 0 => seglog = <<<<0, dgram[1].len>>>>

\* C10: with receive offload disabled a successful receive reports the
\* length the kernel returned and a segment size equal to it, for every
\* length the scratch buffer holds.
C10_PlainReceiveSegmentIsLength ==
  (p_out # None /\ ~p_in[1].enable_gro) =>
    /\ p_out[1].len = p_in[1].size
    /\ p_out[1].segment_size = p_out[1].len

\* The largest datagram the buffer holds, received without offload.
C10_Witness ==
  /\ pc = "received"
  /\ ~p_in[1].enable_gro
  /\ p_in[1].size = MAX_UDP_PAYLOAD
  /\ p_out[1].segment_size = MAX_UDP_PAYLOAD

\* The engine receive errors for which the segment is skipped.
SkippedErrors ==
  {"InvalidHeader", "UnknownConnID", "InvalidConnID", "InvalidAddrToken",
   "QuicheRecvFailed"}

\* C11: when the engine's receive fails for a segment with a malformed
\* header, an unknown or invalid connection id, an invalid address-validation
\* token or a protocol-library failure, that segment alone is given up: the
\* segment loop goes on with the next segment of the datagram, or with the
\* next receive when it was the last one, the for loop over the ready events
\* is where it was, and run neither returns nor panics.
C11_SkippedSegmentOnly ==
  [][(pc = "seg" /\ last_res' \in SkippedErrors) =>
       /\ seglog' = Append(seglog, CurChunks[ci])
       /\ ci' = ci + 1
       /\ pc' = (IF ci < Len(CurChunks) THEN "seg" ELSE "read")
       /\ UNCHANGED <<mio_events, idx, rx_count, dgram, steps, stop, panic>>]_vars

\* The first segment of a datagram failed to parse and the second segment is
\* the next one handed to the engine.
C11_Witness ==
  /\ pc = "seg"
  /\ last_res = "InvalidHeader"
  /\ seglog = <<<<0, 1>>>>
  /\ ci = 2
  /\ stop = "running"

\* C12: in the sending phase every packet the engine produced has been passed
\* to the socket registry's send once when the next one is requested and when
\* the engine reports that nothing more is to be sent; a send that failed is
\* counted among them and is not passed again, run does not stop on it, and
\* the iteration goes on to garbage collection.  The panics of the phase
\* are the registry's (no socket for the source address) and the one on an
\* unexpected error of the engine.
C12_SendDrain ==
  /\ send_errs <= handed
  /\ handed <= produced
  /\ pc \in {"send", "gc", "check"} => handed = produced
  /\ (pc = "timeout" /\ steps = Order) => handed = produced
  /\ (pc = "panicked" /\ Len(steps) = 5) =>
       /\ panic \in {"no_socket_for_address", "send_unexpected"}
       /\ panic = "no_socket_for_address" => produced = handed + 1
       /\ panic = "send_unexpected" => produced = handed
  /\ panic # "send_io"
  /\ send_errs > 0 => Len(steps) >= 5

\* Two packets were produced, the send of both failed, and the iteration is
\* at garbage collection.
C12_Witness ==
  /\ pc = "gc"
  /\ produced = 2
  /\ handed = 2
  /\ send_errs = 2
  /\ stop = "running"

\* C13: a send through the socket registry with declared source address a is
\* delegated to a stored socket whose cached local address is a; when no
\* stored socket has local address a the send panics, and it panics in that
\* case only.
C13_SendResolvesBySourceAddress ==
  /\ send_res # None =>
       LET s == send_res[1]
       IN  /\ s.key # None =>
                /\ SlabHas(sockets, s.key[1])
                /\ SlabGet(sockets, s.key[1]).local_addr = s.from
           /\ s.key = None <=> (\A k \in DOMAIN sockets : sockets[k].local_addr # s.from)
           /\ s.key = None <=> panic = "no_socket_for_address"
  /\ panic = "no_socket_for_address" => (send_res # None /\ pc = "panicked" /\ stop = "fatal")

\* With sockets for "a1" and "a2" registered in this order, a send from "a2"
\* went to the second slot.
C13_Witness ==
  /\ Len(sockets) = 2
  /\ sockets[1].local_addr = "a1"
  /\ sockets[2].local_addr = "a2"
  /\ send_res = Some([from |-> "a2", key |-> Some(1)])
  /\ panic = "none"

\* C19: the registrations so far hold pairwise distinct tokens, the
\* descriptor the event slab holds at each of these tokens is the one stored
\* by the registration, every token registered with the poller is a key of
\* the event slab, and the slot a Socket descriptor names is occupied.
C19_TokensStable ==
  /\ \A i, j \in DOMAIN reg_log : i # j => reg_log[i].token # reg_log[j].token
  /\ \A i \in DOMAIN reg_log :
       /\ SlabHas(events, reg_log[i].token)
       /\ SlabGet(events, reg_log[i].token) = reg_log[i].ev
  /\ Len(reg_log) = Len(events)
  /\ registered \subseteq Tokens(events)
  /\ \A t \in Tokens(events) :
       SlabGet(events, t).tag = "Socket" => SlabHas(sockets, SlabGet(events, t).arg)

\* A close pipe, a socket and an external source are registered, in this
\* order, under the tokens 0, 1 and 2.
C19_Witness ==
  /\ Len(events) = 3
  /\ events[1] = EvClose
  /\ events[2] = EvSocket(0)
  /\ events[3].tag = "External"
  /\ registered = {0, 1, 2}
  /\ pc = "setup"

\* No two stored sockets have the same local address.
DistinctAddrs ==
  \A i, j \in DOMAIN sockets : i # j => sockets[i].local_addr # sockets[j].local_addr

\* Every entry of the reverse index is the slot of a stored socket with that
\* local address, every stored socket's address has an entry, and the key an
\* insert returned is the slot the socket is stored in.
IndexSound ==
  /\ \A a \in DOMAIN src_addr_to_key :
       /\ SlabHas(sockets, src_addr_to_key[a])
       /\ SlabGet(sockets, src_addr_to_key[a]).local_addr = a
  /\ \A k \in DOMAIN sockets : sockets[k].local_addr \in DOMAIN src_addr_to_key
  /\ Len(ins_log) = Len(sockets)
  /\ \A i \in DOMAIN ins_log :
       /\ SlabHas(sockets, ins_log[i].key)
       /\ SlabGet(sockets, ins_log[i].key).local_addr = ins_log[i].addr
       /\ ins_log[i].key = i - 1

\* The reverse index has one entry per stored socket, mapping its address to
\* the key its insert returned.
OneEntryPerSocket ==
  /\ Cardinality(DOMAIN src_addr_to_key) = Len(sockets)
  /\ \A i \in DOMAIN ins_log : src_addr_to_key[ins_log[i].addr] = ins_log[i].key

\* C20 (as amended): after any sequence of inserts every slot id stored in
\* the reverse index refers to an occupied slot holding a socket of that
\* address, so the unchecked slot accesses hit an existing socket; and as
\* long as the sockets inserted have pairwise distinct local addresses, the
\* index holds exactly one entry per stored socket, mapping its address to
\* the slot id its insert returned.
C20_ReverseIndex ==
  /\ IndexSound
  /\ DistinctAddrs => OneEntryPerSocket

\* Two sockets with different addresses: two entries, for the slots 0 and 1.
C20_Witness ==
  /\ Len(sockets) = 2
  /\ ins_log = <<[addr |-> "a2", key |-> 0], [addr |-> "a1", key |-> 1]>>
  /\ src_addr_to_key["a2"] = 0
  /\ src_addr_to_key["a1"] = 1
  /\ DOMAIN src_addr_to_key = {"a1", "a2"}

\* C20 as stated: one entry per stored socket after any sequence of inserts.
C20_OneEntryPerSocketAlways ==
  /\ IndexSound
  /\ OneEntryPerSocket

\* C14: when the engine's receive returns a would-block I/O error for a
\* segment, no further segment of that datagram is handed to the engine: the
\* segments handed over end with that one, run is neither stopped nor
\* panicking, and the next step of the drain is a receive on the same socket.
C14_EngineWouldBlockSkipsRest ==
  /\ pc = "seg" => last_res # "IO_WouldBlock"
  /\ last_res = "IO_WouldBlock" =>
       \/ pc = "read"
       \/ (pc = "panicked" /\ panic = "recv_io")
  /\ (pc = "read" /\ last_res = "IO_WouldBlock") =>
       /\ stop = "running"
       /\ panic = "none"
       /\ dgram # None
       /\ seglog # <<>>
       /\ Len(seglog) = ci
       /\ ci <= Len(CurChunks)
       /\ InOrder(seglog, dgram[1].len, dgram[1].segment_size)
       /\ SlabGet(events, mio_events[idx]).tag = "Socket"

\* The first of three one-byte segments met would-block: the other two are
\* not handed over and the next receive is due.
C14_Witness ==
  /\ pc = "read"
  /\ last_res = "IO_WouldBlock"
  /\ dgram = Some([len |-> 3, reported |-> 1, segment_size |-> 1])
  /\ seglog = <<<<0, 1>>>>
  /\ rx_count = 1

\* run stopped on a socket receive error, an engine I/O error or an
\* unclassified engine error.
FatalReceive == panic \in {"recv_io", "engine_io", "unexpected"}

\* C15: a socket receive failure other than would-block, an engine receive
\* I/O error other than would-block and an engine receive error outside the
\* classified set are never passed over: each leaves run panicked at the
\* Socket event being dispatched, in the iteration it occurs in, with no
\* later event dispatched, no post hook, no packet requested or sent and no
\* garbage collection.
C15_FatalReceiveErrors ==
  /\ rx_last = "Error" => panic = "recv_io"
  /\ last_res = "IO_Other" => panic = "engine_io"
  /\ last_res = "Unclassified" => panic = "unexpected"
  /\ FatalReceive =>
       /\ pc = "panicked"
       /\ stop = "fatal"
       /\ steps = <<"timeout", "poll", "pre">>
       /\ idx \in 1..Len(mio_events)
       /\ SlabGet(events, mio_events[idx]).tag = "Socket"
       /\ produced = 0
       /\ handed = 0

\* An unclassified engine error at the first of two ready events.
C15_Witness ==
  /\ panic = "unexpected"
  /\ last_res = "Unclassified"
  /\ idx = 1
  /\ Len(mio_events) = 2
  /\ pc = "panicked"

\* C16: a poll that fails with Interrupted is followed by another poll of
\* the same iteration with the same timeout, nothing else having changed: no
\* hook has run, the engine and the application timeout are as they were.  A
\* poll ends the polling of the iteration by succeeding or by a panic on
\* another error, and that panic comes from nowhere else.
C16_PollRetriedOnInterrupt ==
  [][/\ (pc = "poll" /\ polls' # polls) =>
          /\ polls' = polls + 1
          /\ pc' = "poll"
          /\ UNCHANGED <<timeout, endpoint, app_timeout, steps, stop, panic, idx,
                         histVars, sendVars, drainVars>>
     /\ pc = "poll" =>
          /\ pc' \in {"poll", "pre", "panicked"}
          /\ UNCHANGED <<timeout, endpoint, app_timeout>>
     /\ (pc = "poll" /\ pc' = "panicked") => (panic' = "poll" /\ stop' = "fatal")
     /\ (panic # "poll" /\ panic' = "poll") => pc = "poll"]_vars

\* A poll with a timeout of 1 was interrupted once and then reported a ready
\* event; the timeout is the one computed for the iteration.
C16_Witness ==
  /\ pc = "pre"
  /\ polls = 1
  /\ timeout = Some(1)
  /\ tc_in.app = Some(1)
  /\ tc_in.quic = None
  /\ Len(mio_events) = 1

\* The values registered with the External descriptors among the first n
\* ready events, in enumeration order.
ExtArgs(n) ==
  LET ext == SelectSeq(SubSeq(mio_events, 1, n),
                       LAMBDA t : SlabGet(events, t).tag = "External")
  IN  [i \in 1..Len(ext) |-> SlabGet(events, ext[i]).arg]

\* C17: the values the external-event hook was called with in an iteration
\* are the values registered with the External events dispatched so far, one
\* call per event in enumeration order, and there is no call without a hook
\* configured.  A socket is read only for a Socket event, run panics during
\* dispatch only at a Socket event and returns only at a Close event: an
\* External event, with or without hook, is followed by the next ready event.
C17_ExternalHookOncePerEvent ==
  /\ idx = 0 => ext_log = <<>>
  /\ idx >= 1 => ext_log = (IF on_external_event THEN ExtArgs(idx - 1) ELSE <<>>)
  /\ ext_called <=> ext_log # <<>>
  /\ sock_read =>
       \E i \in 1..Min(idx, Len(mio_events)) : SlabGet(events, mio_events[i]).tag = "Socket"
  /\ (pc = "panicked" /\ Len(steps) = 3 /\ idx >= 1) =>
       SlabGet(events, mio_events[idx]).tag = "Socket"
  /\ stop = "shutdown" => SlabGet(events, mio_events[idx]).tag = "Close"

\* The external source was enumerated first: the hook got its value, no
\* socket was read and the second ready event is due.
C17_Witness ==
  /\ on_external_event
  /\ pc = "events"
  /\ idx = 2
  /\ Len(mio_events) = 2
  /\ SlabGet(events, mio_events[1]) = EvExternal(7)
  /\ ext_log = <<7>>
  /\ ~sock_read

\* C18 (as amended): on_timeout is invoked only in an iteration whose poll
\* had a timeout and returned no ready event, whichever timeout that was: the
\* engine's, a shorter application timeout or the zero timeout of pending
\* sends; it is not invoked in an iteration whose poll had no timeout.
C18_OnTimeoutAfterTimedOutPoll ==
  /\ on_timeout_calls = 1 <=> idle_wait # None
  /\ idle_wait # None =>
       /\ mio_events = <<>>
       /\ idle_wait[1].timeout # None

\* on_timeout ran after a poll bounded by an application timeout of 1, the
\* engine's timeout being 2.
C18_Witness ==
  /\ idle_wait = Some([pending |-> FALSE, quic |-> Some(2), timeout |-> Some(1)])
  /\ on_timeout_calls = 1
  /\ pc = "post"

\* C18 as stated: on_timeout runs only after a poll that waited for the
\* timeout the engine reported.
C18_OnTimeoutOnlyOnEngineTimeout ==
  idle_wait # None =>
    /\ mio_events = <<>>
    /\ ~idle_wait[1].pending
    /\ idle_wait[1].quic # None
    /\ idle_wait[1].timeout = idle_wait[1].quic

====
